---- MODULE Spec2Model ----
(***************************************************************************)
(* The PTY relay supervisor of scripts/claude-auth-pty.py: the parent      *)
(* branch of main() after os.fork() has returned, the SIGTERM handler, the *)
(* child process as the parent observes it (exec, terminal output, exit),  *)
(* and the upstream writer of the supervisor's stdin.                      *)
(*                                                                         *)
(* One step of the supervisor is one system call together with the Python  *)
(* statements around it; the signal handler runs between two such steps,   *)
(* as CPython runs handlers between bytecodes of the main thread (an       *)
(* interrupted select/waitpid is restarted after the handler returns).     *)
(***************************************************************************)
EXTENDS Integers, Sequences, FiniteSets

\* ---- bounds of the model ------------------------------------------------
\* bytes the child writes to its terminal, besides the exec-failure message
MaxOut == 2
\* bytes the upstream process offers on the supervisor's stdin
MaxIn == 2
\* bytes one os.read may return (4096 in the source, scaled down)
ChunkSize == 1
\* SIGTERMs delivered to the supervisor
MaxSigterm == 1
\* system calls that fail with an OSError not caused by the child's exit
MaxFaults == 1
\* the child's exit codes are 0..MaxCode (0..255 in reality)
MaxCode == 2

\* ---- values ---------------------------------------------------------------
MASTER == "master_fd"
STDIN == "stdin"
NoExit == -1
NoStatus == [kind |-> "none", code |-> 0]
Exited(n) == [kind |-> "exited", code |-> n]
Signaled == [kind |-> "signaled", code |-> 0]
\* the i-th byte the child writes, the i-th byte offered on stdin, and the
\* exec-failure message (one unit of terminal output)
OutByte(i) == 100 + i
InByte(i) == 200 + i
ErrMsg == 99

Min(a, b) == IF a < b THEN a ELSE b

VARIABLES
    pc,            \* position of the supervisor (parent branch of main)
    child_alive,   \* the flag of line 40, shared with sigterm_handler
    fds,           \* the list built at line 54
    readable,      \* what is left of the for loop of line 60
    pendingExit,   \* code of a SystemExit raised in the try block, or NoExit
    exitCode,      \* exit code of the supervisor process, NoExit while it runs
    masterOpen,    \* master_fd is open in the supervisor
    child,         \* "preexec", "running", "zombie" or "gone"
    childStatus,   \* how the child terminated (ground truth)
    autoReap,      \* SIGCHLD is ignored: the kernel discards the child's status
    collectedBy,   \* which waitpid obtained the status: "none", "loop", "cleanup"
    slaveOpen,     \* some process still has the PTY slave open
    ptyOut,        \* everything the child has written to its terminal
    ptyRead,       \* how much of ptyOut os.read(master_fd) has consumed
    stdoutBytes,   \* everything written to the supervisor's stdout
    stdinAvail,    \* bytes offered on stdin so far
    stdinClosed,   \* upstream has closed stdin
    stdinRead,     \* bytes os.read(stdin) has consumed
    masterIn,      \* everything written to master_fd
    nSigterm,      \* SIGTERMs delivered to the supervisor
    handlerRuns,   \* runs of sigterm_handler
    termSent,      \* 1 once the supervisor has sent SIGTERM to an existing child
    faults,        \* injected OSErrors
    execFailed,    \* os.execvpe raised in the child branch
    stdinEofCount, \* reads of stdin that returned zero bytes: 0, 1, or 2 for more
    masterWriteFailed, \* an os.write(master_fd) has raised OSError
    loopErr,       \* select, the master read or the stdout write has failed
    outAtEof,      \* Len(ptyOut) at the first zero-byte read of stdin, or -1
    audit          \* record of what the run has done so far (see AuditInit)

vars == <<pc, child_alive, fds, readable, pendingExit, exitCode, masterOpen,
          child, childStatus, autoReap, collectedBy, slaveOpen, ptyOut,
          ptyRead,
          stdoutBytes, stdinAvail, stdinClosed, stdinRead, masterIn, nSigterm,
          handlerRuns, termSent, faults, execFailed, stdinEofCount,
          masterWriteFailed, loopErr, outAtEof, audit>>

supVars == <<pc, child_alive, fds, readable, pendingExit, exitCode, masterOpen>>
childVars == <<child, childStatus, collectedBy, slaveOpen>>
outVars == <<ptyOut, ptyRead, stdoutBytes>>
inVars == <<stdinAvail, stdinClosed, stdinRead, masterIn>>
sigVars == <<nSigterm, handlerRuns, termSent>>
histVars == <<faults, execFailed, stdinEofCount, masterWriteFailed, loopErr,
              outAtEof>>

ChildLive == child \in {"preexec", "running"}
Running == pc \notin {"exited", "killed"}

\* main is inside the while loop of lines 53-96
LoopPcs == {"loop", "select", "dispatch", "check"}

\* state of a child that has just terminated: a zombie until it is waited
\* for, unless SIGCHLD is ignored and the kernel releases it at once
Terminated == IF autoReap THEN "gone" ELSE "zombie"

\* what the run has done so far, for the properties about the order of the
\* system calls
AuditInit ==
    [ closeCount |-> 0,          \* calls of os.close(master_fd)
      usedAfterClose |-> FALSE,  \* select, read or write on a closed master_fd
      sigInCleanup |-> FALSE,    \* sigterm_handler ran inside the finally block
      afterReap |-> FALSE,       \* main called os.kill or os.waitpid on pid
                                 \* after a waitpid had returned its status
      masterEnded |-> FALSE,     \* the master read returned nothing or raised,
                                 \* or the write to stdout raised
      cleanupLog |-> <<>>,       \* steps of the finally block attempted so far
      closeFailed |-> FALSE,     \* os.close(master_fd) raised OSError
      termInCleanup |-> FALSE,   \* line 104 sent SIGTERM to an existing child
      quietTimeouts |-> 0,       \* select timeouts that expired after the child
                                 \* had terminated (2 stands for more)
      death |-> "none" ]         \* when the child terminated: "termed" killed
                                 \* after the supervisor had sent it SIGTERM,
                                 \* "loop" while main was in the relay loop,
                                 \* "other" before or after the loop

\* the child terminates, by a signal or not
Death(a, bySignal) ==
    [a EXCEPT !.death = IF bySignal /\ termSent > 0 THEN "termed"
                        ELSE IF pc \in LoopPcs THEN "loop" ELSE "other"]

\* a select that timed out: counted when the child had already terminated
QuietTimeout(a) ==
    [a EXCEPT !.quietTimeouts = IF ChildLive THEN @ ELSE Min(@ + 1, 2)]

\* an os.kill(pid, ...) or os.waitpid(pid, ...) call of main
PidOp(a) == [a EXCEPT !.afterReap = @ \/ collectedBy # "none"]

\* the master-to-stdout branch ended in lines 65-67 or 69-71
MasterEnd(a) == [a EXCEPT !.masterEnded = TRUE]

\* a step of the finally block is attempted
CleanupStep(a, step) == [a EXCEPT !.cleanupLog = Append(@, step)]

\* a select, read or write that involves master_fd
MasterOp(a) == [a EXCEPT !.usedAfterClose = @ \/ ~masterOpen]

\* ---- the state after os.fork() returned in the parent (line 19) ----------
Init ==
    /\ pc = "setup"
    /\ child_alive = TRUE
    /\ fds = {}
    /\ readable = <<>>
    /\ pendingExit = NoExit
    /\ exitCode = NoExit
    /\ masterOpen = TRUE
    /\ child = "preexec"
    /\ childStatus = NoStatus
    /\ autoReap \in BOOLEAN
    /\ collectedBy = "none"
    /\ slaveOpen = TRUE
    /\ ptyOut = <<>>
    /\ ptyRead = 0
    /\ stdoutBytes = <<>>
    /\ stdinAvail = 0
    /\ stdinClosed = FALSE
    /\ stdinRead = 0
    /\ masterIn = <<>>
    /\ nSigterm = 0
    /\ handlerRuns = 0
    /\ termSent = 0
    /\ faults = 0
    /\ execFailed = FALSE
    /\ stdinEofCount = 0
    /\ masterWriteFailed = FALSE
    /\ loopErr = FALSE
    /\ outAtEof = -1
    /\ audit = AuditInit

\* ---- the child branch (lines 21-36) and the wrapped command ---------------
\* the slave side once the child has terminated: closed, unless the command
\* had started and left behind a process that inherited the terminal
SlaveAfterExit == IF child = "running" THEN {FALSE, TRUE} ELSE {FALSE}

\* os.execvpe succeeds: the target command runs on the PTY slave
ChildExec ==
    /\ child = "preexec"
    /\ child' = "running"
    /\ UNCHANGED <<childStatus, collectedBy, slaveOpen, autoReap>>
    /\ UNCHANGED <<supVars, outVars, inVars, sigVars, histVars>>
    /\ UNCHANGED audit

\* os.execvpe raises: the message goes to stderr, which is the PTY slave, and
\* os._exit(1) ends the branch (lines 34-36)
ChildExecFail ==
    /\ child = "preexec"
    /\ ptyOut' = Append(ptyOut, ErrMsg)
    /\ child' = Terminated
    /\ childStatus' = Exited(1)
    /\ slaveOpen' = FALSE
    /\ execFailed' = TRUE
    /\ UNCHANGED <<collectedBy, autoReap, ptyRead, stdoutBytes>>
    /\ UNCHANGED <<supVars, inVars, sigVars>>
    /\ UNCHANGED <<faults, stdinEofCount, masterWriteFailed, loopErr, outAtEof>>
    /\ audit' = Death(audit, FALSE)

\* the command writes one more byte to its terminal
ChildWrite ==
    /\ child = "running"
    /\ Len(ptyOut) < MaxOut
    /\ ptyOut' = Append(ptyOut, OutByte(Len(ptyOut) + 1))
    /\ UNCHANGED <<ptyRead, stdoutBytes, autoReap>>
    /\ UNCHANGED <<supVars, childVars, inVars, sigVars, histVars>>
    /\ UNCHANGED audit

\* the command exits normally with code n
ChildExit ==
    /\ child = "running"
    /\ \E n \in 0..MaxCode : childStatus' = Exited(n)
    /\ child' = Terminated
    /\ slaveOpen' \in SlaveAfterExit
    /\ UNCHANGED <<collectedBy, autoReap>>
    /\ UNCHANGED <<supVars, outVars, inVars, sigVars, histVars>>
    /\ audit' = Death(audit, FALSE)

\* the child is terminated by a signal: the SIGTERM it was sent (SIGTERM has
\* its default disposition in the child branch, the handler being installed
\* in the parent only after the fork), or any other fatal signal
ChildSignaled ==
    /\ ChildLive
    /\ childStatus' = Signaled
    /\ child' = Terminated
    /\ slaveOpen' \in SlaveAfterExit
    /\ UNCHANGED <<collectedBy, autoReap>>
    /\ UNCHANGED <<supVars, outVars, inVars, sigVars, histVars>>
    /\ audit' = Death(audit, TRUE)

\* the last process left behind by the command closes the slave
SlaveRelease ==
    /\ ~ChildLive
    /\ slaveOpen
    /\ slaveOpen' = FALSE
    /\ UNCHANGED <<child, childStatus, collectedBy, autoReap>>
    /\ UNCHANGED <<supVars, outVars, inVars, sigVars, histVars>>
    /\ UNCHANGED audit

\* ---- the upstream writer of the supervisor's stdin -------------------------
StdinOffer ==
    /\ ~stdinClosed
    /\ stdinAvail < MaxIn
    /\ stdinAvail' = stdinAvail + 1
    /\ UNCHANGED <<stdinClosed, stdinRead, masterIn, autoReap>>
    /\ UNCHANGED <<supVars, childVars, outVars, sigVars, histVars>>
    /\ UNCHANGED audit

StdinClose ==
    /\ ~stdinClosed
    /\ stdinClosed' = TRUE
    /\ UNCHANGED <<stdinAvail, stdinRead, masterIn, autoReap>>
    /\ UNCHANGED <<supVars, childVars, outVars, sigVars, histVars>>
    /\ UNCHANGED audit

\* ---- SIGTERM delivered to the supervisor -----------------------------------
\* os.kill(pid, SIGTERM) as the kernel performs it: recorded when the process
\* still exists (a zombie accepts the signal), ProcessLookupError otherwise
KillChild(n) == IF child = "gone" THEN n ELSE 1

\* before signal.signal (line 50) SIGTERM has its default disposition and
\* terminates the supervisor
SigtermDefault ==
    /\ pc = "setup"
    /\ nSigterm < MaxSigterm
    /\ nSigterm' = nSigterm + 1
    /\ pc' = "killed"
    /\ UNCHANGED <<child_alive, fds, readable, pendingExit, exitCode, masterOpen>>
    /\ UNCHANGED <<handlerRuns, termSent, autoReap>>
    /\ UNCHANGED <<childVars, outVars, inVars, histVars>>
    /\ UNCHANGED audit

\* a handler that forwards the signal and leaves the loop flag alone
SigtermHandler_KeepsRelaying ==
    /\ Running
    /\ pc # "setup"
    /\ nSigterm < MaxSigterm
    /\ nSigterm' = nSigterm + 1
    /\ handlerRuns' = handlerRuns + 1
    /\ termSent' = KillChild(termSent)
    /\ UNCHANGED <<pc, child_alive, fds, readable, pendingExit, exitCode>>
    /\ UNCHANGED <<masterOpen, autoReap>>
    /\ UNCHANGED <<childVars, outVars, inVars, histVars>>
    /\ audit' = [audit EXCEPT !.sigInCleanup = @ \/ pc \in {"close", "kill", "wait"}]

\* sigterm_handler (lines 42-48)
SigtermHandler ==
    /\ Running
    /\ pc # "setup"
    /\ nSigterm < MaxSigterm
    /\ nSigterm' = nSigterm + 1
    /\ handlerRuns' = handlerRuns + 1
    /\ termSent' = KillChild(termSent)
    /\ child_alive' = FALSE
    /\ UNCHANGED <<pc, fds, readable, pendingExit, exitCode, masterOpen, autoReap>>
    /\ UNCHANGED <<childVars, outVars, inVars, histVars>>
    /\ audit' = [audit EXCEPT !.sigInCleanup = @ \/ pc \in {"close", "kill", "wait"}]

\* ---- the parent branch: set-up and relay loop (lines 39-96) ---------------
\* lines 39-50: close the slave, child_alive = True, install the handler
Setup ==
    /\ pc = "setup"
    /\ child_alive' = TRUE
    /\ pc' = "loop"
    /\ UNCHANGED <<fds, readable, pendingExit, exitCode, masterOpen, autoReap>>
    /\ UNCHANGED <<childVars, outVars, inVars, sigVars, histVars>>
    /\ UNCHANGED audit

\* lines 53-54: the while test; a new iteration builds fds afresh, a false
\* flag leaves the loop for the finally block
LoopTest ==
    /\ pc = "loop"
    /\ IF child_alive
         THEN /\ fds' = {MASTER, STDIN}
              /\ pc' = "select"
         ELSE /\ fds' = fds
              /\ pc' = "close"
    /\ UNCHANGED <<child_alive, readable, pendingExit, exitCode, masterOpen, autoReap>>
    /\ UNCHANGED <<childVars, outVars, inVars, sigVars, histVars>>
    /\ UNCHANGED audit

\* the master is readable when terminal output is pending or when the slave
\* side has been closed by its last holder
MasterReady == ptyRead < Len(ptyOut) \/ ~slaveOpen
\* stdin is readable when input is pending or at end of file
StdinReady == stdinRead < stdinAvail \/ stdinClosed
\* the descriptors select reports, in the order of the list it was given
ReadyList ==
    (IF MASTER \in fds /\ MasterReady THEN <<MASTER>> ELSE <<>>)
      \o (IF STDIN \in fds /\ StdinReady THEN <<STDIN>> ELSE <<>>)

\* lines 55-56: select returns the ready descriptors
SelectReady ==
    /\ pc = "select"
    /\ ReadyList # <<>>
    /\ readable' = ReadyList
    /\ pc' = "dispatch"
    /\ UNCHANGED <<child_alive, fds, pendingExit, exitCode, masterOpen, autoReap>>
    /\ UNCHANGED <<childVars, outVars, inVars, sigVars, histVars>>
    /\ audit' = MasterOp(audit)

\* a timed-out select starting the next iteration at once, the child check
\* of lines 85-96 being reached only after a descriptor was dispatched
SelectTimeout_SkipsCheck ==
    /\ pc = "select"
    /\ ReadyList = <<>>
    /\ readable' = <<>>
    /\ pc' = "loop"
    /\ UNCHANGED <<child_alive, fds, pendingExit, exitCode, masterOpen, autoReap>>
    /\ UNCHANGED <<childVars, outVars, inVars, sigVars, histVars>>
    /\ audit' = QuietTimeout(MasterOp(audit))

\* lines 55-56: nothing became readable within the 1.0 s timeout; the empty
\* list leaves nothing to dispatch and control reaches the check of line 85
SelectTimeout ==
    /\ pc = "select"
    /\ ReadyList = <<>>
    /\ readable' = <<>>
    /\ pc' = "check"
    /\ UNCHANGED <<child_alive, fds, pendingExit, exitCode, masterOpen, autoReap>>
    /\ UNCHANGED <<childVars, outVars, inVars, sigVars, histVars>>
    /\ audit' = QuietTimeout(MasterOp(audit))

\* lines 57-58: select raises ValueError or OSError; break leaves the while
SelectError ==
    /\ pc = "select"
    /\ faults < MaxFaults
    /\ faults' = faults + 1
    /\ loopErr' = TRUE
    /\ pc' = "close"
    /\ UNCHANGED <<child_alive, fds, readable, pendingExit, exitCode, masterOpen>>
    /\ UNCHANGED <<execFailed, stdinEofCount, masterWriteFailed, outAtEof, autoReap>>
    /\ UNCHANGED <<childVars, outVars, inVars, sigVars>>
    /\ audit' = MasterOp(audit)

\* the for loop goes on to the next descriptor, or ends: lines 85-96 follow
NextFd == IF Tail(readable) = <<>> THEN "check" ELSE "dispatch"
\* the chunk an os.read of at most ChunkSize bytes returns
MasterChunk == SubSeq(ptyOut, ptyRead + 1, Min(Len(ptyOut), ptyRead + ChunkSize))
StdinChunk ==
    [i \in 1..Min(ChunkSize, stdinAvail - stdinRead) |-> InByte(stdinRead + i)]

\* lines 63-68: data from the terminal is written to stdout
ReadMasterData ==
    /\ pc = "dispatch"
    /\ Head(readable) = MASTER
    /\ ptyRead < Len(ptyOut)
    /\ ptyRead' = ptyRead + Len(MasterChunk)
    /\ stdoutBytes' = stdoutBytes \o MasterChunk
    /\ readable' = Tail(readable)
    /\ pc' = NextFd
    /\ UNCHANGED <<child_alive, fds, pendingExit, exitCode, masterOpen, ptyOut>>
    /\ UNCHANGED <<autoReap, childVars, inVars, sigVars, histVars>>
    /\ audit' = MasterOp(audit)

\* the failed write to stdout handled like line 83: the chunk is lost, the
\* for loop is left and the flag kept, so the relay goes on
ReadMasterWriteFail_BreakOnly ==
    /\ pc = "dispatch"
    /\ Head(readable) = MASTER
    /\ ptyRead < Len(ptyOut)
    /\ faults < MaxFaults
    /\ faults' = faults + 1
    /\ loopErr' = TRUE
    /\ ptyRead' = ptyRead + Len(MasterChunk)
    /\ pc' = "check"
    /\ UNCHANGED <<child_alive, fds, readable, pendingExit, exitCode, masterOpen>>
    /\ UNCHANGED <<ptyOut, stdoutBytes, autoReap, childVars, inVars, sigVars>>
    /\ UNCHANGED <<execFailed, stdinEofCount, masterWriteFailed, outAtEof>>
    /\ audit' = MasterEnd(MasterOp(audit))

\* lines 64, 68-71: the chunk is read but os.write(stdout) raises OSError
ReadMasterWriteFail ==
    /\ pc = "dispatch"
    /\ Head(readable) = MASTER
    /\ ptyRead < Len(ptyOut)
    /\ faults < MaxFaults
    /\ faults' = faults + 1
    /\ loopErr' = TRUE
    /\ ptyRead' = ptyRead + Len(MasterChunk)
    /\ child_alive' = FALSE
    /\ pc' = "check"
    /\ UNCHANGED <<fds, readable, pendingExit, exitCode, masterOpen>>
    /\ UNCHANGED <<ptyOut, stdoutBytes, autoReap, childVars, inVars, sigVars>>
    /\ UNCHANGED <<execFailed, stdinEofCount, masterWriteFailed, outAtEof>>
    /\ audit' = MasterEnd(MasterOp(audit))

\* end of stream handled by closing master_fd on the spot, ahead of the
\* close of the finally block
ReadMasterEof_Closes ==
    /\ pc = "dispatch"
    /\ Head(readable) = MASTER
    /\ ptyRead = Len(ptyOut)
    /\ child_alive' = FALSE
    /\ masterOpen' = FALSE
    /\ pc' = "check"
    /\ UNCHANGED <<fds, readable, pendingExit, exitCode, autoReap>>
    /\ UNCHANGED <<childVars, outVars, inVars, sigVars, histVars>>
    /\ audit' = [MasterOp(audit) EXCEPT !.closeCount = @ + 1]

\* lines 64-67, 69-71: nothing is pending and the slave side is closed; the
\* read returns zero bytes or raises EIO, and both end the for loop
ReadMasterEof ==
    /\ pc = "dispatch"
    /\ Head(readable) = MASTER
    /\ ptyRead = Len(ptyOut)
    /\ child_alive' = FALSE
    /\ pc' = "check"
    /\ UNCHANGED <<fds, readable, pendingExit, exitCode, masterOpen, autoReap>>
    /\ UNCHANGED <<childVars, outVars, inVars, sigVars, histVars>>
    /\ audit' = MasterEnd(MasterOp(audit))

\* the read error handled like line 83: the for loop is left, the flag kept
ReadMasterErr_BreakOnly ==
    /\ pc = "dispatch"
    /\ Head(readable) = MASTER
    /\ ptyRead < Len(ptyOut)
    /\ faults < MaxFaults
    /\ faults' = faults + 1
    /\ loopErr' = TRUE
    /\ pc' = "check"
    /\ UNCHANGED <<child_alive, fds, readable, pendingExit, exitCode, masterOpen>>
    /\ UNCHANGED <<execFailed, stdinEofCount, masterWriteFailed, outAtEof>>
    /\ UNCHANGED <<autoReap, childVars, outVars, inVars, sigVars>>
    /\ audit' = MasterEnd(MasterOp(audit))

\* lines 64, 69-71: os.read(master_fd) raises OSError with output pending
ReadMasterErr ==
    /\ pc = "dispatch"
    /\ Head(readable) = MASTER
    /\ ptyRead < Len(ptyOut)
    /\ faults < MaxFaults
    /\ faults' = faults + 1
    /\ loopErr' = TRUE
    /\ child_alive' = FALSE
    /\ pc' = "check"
    /\ UNCHANGED <<fds, readable, pendingExit, exitCode, masterOpen, autoReap>>
    /\ UNCHANGED <<execFailed, stdinEofCount, masterWriteFailed, outAtEof>>
    /\ UNCHANGED <<childVars, outVars, inVars, sigVars>>
    /\ audit' = MasterEnd(MasterOp(audit))

\* lines 74-81: a chunk from stdin is written to the master
ReadStdinData ==
    /\ pc = "dispatch"
    /\ Head(readable) = STDIN
    /\ stdinRead < stdinAvail
    /\ stdinRead' = stdinRead + Len(StdinChunk)
    /\ masterIn' = masterIn \o StdinChunk
    /\ readable' = Tail(readable)
    /\ pc' = NextFd
    /\ UNCHANGED <<child_alive, fds, pendingExit, exitCode, masterOpen>>
    /\ UNCHANGED <<stdinAvail, stdinClosed, autoReap>>
    /\ UNCHANGED <<childVars, outVars, sigVars, histVars>>
    /\ audit' = MasterOp(audit)

\* lines 75, 81-83: the chunk is read but os.write(master_fd) raises OSError;
\* the break ends the for loop only, child_alive is left as it is
ReadStdinWriteFail ==
    /\ pc = "dispatch"
    /\ Head(readable) = STDIN
    /\ stdinRead < stdinAvail
    /\ faults < MaxFaults
    /\ faults' = faults + 1
    /\ masterWriteFailed' = TRUE
    /\ stdinRead' = stdinRead + Len(StdinChunk)
    /\ pc' = "check"
    /\ UNCHANGED <<child_alive, fds, readable, pendingExit, exitCode, masterOpen>>
    /\ UNCHANGED <<stdinAvail, stdinClosed, masterIn, autoReap>>
    /\ UNCHANGED <<execFailed, stdinEofCount, loopErr, outAtEof>>
    /\ UNCHANGED <<childVars, outVars, sigVars>>
    /\ audit' = MasterOp(audit)

\* the zero-byte read treated like end of stream on the master: the flag is
\* cleared and the for loop left
ReadStdinEof_EndsRelay ==
    /\ pc = "dispatch"
    /\ Head(readable) = STDIN
    /\ stdinRead = stdinAvail
    /\ stdinClosed
    /\ stdinEofCount' = IF stdinEofCount = 0 THEN 1 ELSE 2
    /\ outAtEof' = IF outAtEof = -1 THEN Len(ptyOut) ELSE outAtEof
    /\ child_alive' = FALSE
    /\ pc' = "check"
    /\ UNCHANGED <<fds, readable, pendingExit, exitCode, masterOpen, autoReap>>
    /\ UNCHANGED <<faults, execFailed, masterWriteFailed, loopErr>>
    /\ UNCHANGED <<childVars, outVars, inVars, sigVars>>
    /\ UNCHANGED audit

\* lines 75-80: zero bytes; stdin is removed from this iteration's fds list
\* and the for loop continues
ReadStdinEof ==
    /\ pc = "dispatch"
    /\ Head(readable) = STDIN
    /\ stdinRead = stdinAvail
    /\ stdinClosed
    /\ stdinEofCount' = IF stdinEofCount = 0 THEN 1 ELSE 2
    /\ outAtEof' = IF outAtEof = -1 THEN Len(ptyOut) ELSE outAtEof
    /\ fds' = fds \ {STDIN}
    /\ readable' = Tail(readable)
    /\ pc' = NextFd
    /\ UNCHANGED <<child_alive, pendingExit, exitCode, masterOpen, autoReap>>
    /\ UNCHANGED <<faults, execFailed, masterWriteFailed, loopErr>>
    /\ UNCHANGED <<childVars, outVars, inVars, sigVars>>
    /\ UNCHANGED audit

\* lines 75, 82-83: os.read(stdin) raises OSError; nothing is consumed
ReadStdinErr ==
    /\ pc = "dispatch"
    /\ Head(readable) = STDIN
    /\ faults < MaxFaults
    /\ faults' = faults + 1
    /\ pc' = "check"
    /\ UNCHANGED <<child_alive, fds, readable, pendingExit, exitCode, masterOpen>>
    /\ UNCHANGED <<execFailed, stdinEofCount, masterWriteFailed, loopErr, outAtEof>>
    /\ UNCHANGED autoReap
    /\ UNCHANGED <<childVars, outVars, inVars, sigVars>>
    /\ UNCHANGED audit

\* the in-loop mapping with the normal-exit branch lost: always the generic code
LoopExitCode_Generic(status) == 1

\* lines 90-93: the exit code for a status the in-loop waitpid returned
LoopExitCode(status) == IF status.kind = "exited" THEN status.code ELSE 1

\* lines 86-88: os.waitpid(pid, WNOHANG) returns (0, 0), the child runs on
CheckAlive ==
    /\ pc = "check"
    /\ ChildLive
    /\ pc' = "loop"
    /\ UNCHANGED <<child_alive, fds, readable, pendingExit, exitCode, masterOpen>>
    /\ UNCHANGED <<autoReap, childVars, outVars, inVars, sigVars, histVars>>
    /\ audit' = PidOp(audit)

\* lines 86-93: the child is reaped; sys.exit raises SystemExit, which
\* unwinds into the finally block
CheckReaped ==
    /\ pc = "check"
    /\ child = "zombie"
    /\ child' = "gone"
    /\ collectedBy' = "loop"
    /\ child_alive' = FALSE
    /\ pendingExit' = LoopExitCode(childStatus)
    /\ pc' = "close"
    /\ UNCHANGED <<fds, readable, exitCode, masterOpen, childStatus, autoReap>>
    /\ UNCHANGED <<outVars, inVars, sigVars, histVars>>
    /\ audit' = PidOp(audit)
    /\ UNCHANGED slaveOpen

\* lines 86-87, 94-96: there is no child to wait for (ChildProcessError)
CheckNoChild ==
    /\ pc = "check"
    /\ child = "gone"
    /\ child_alive' = FALSE
    /\ pc' = "close"
    /\ UNCHANGED <<fds, readable, pendingExit, exitCode, masterOpen, autoReap>>
    /\ UNCHANGED <<childVars, outVars, inVars, sigVars, histVars>>
    /\ audit' = PidOp(audit)

\* ---- the finally block (lines 98-112) --------------------------------------
\* the finally block without its close
CleanupClose_Skipped ==
    /\ pc = "close"
    /\ pc' = "kill"
    /\ UNCHANGED <<child_alive, fds, readable, pendingExit, exitCode, masterOpen>>
    /\ UNCHANGED <<autoReap, childVars, outVars, inVars, sigVars, histVars>>
    /\ UNCHANGED audit

\* lines 99-102: os.close(master_fd); close releases the descriptor also
\* when it reports an error, which is passed over
CleanupClose ==
    /\ pc = "close"
    /\ masterOpen' = FALSE
    /\ pc' = "kill"
    /\ UNCHANGED <<child_alive, fds, readable, pendingExit, exitCode, autoReap>>
    /\ UNCHANGED <<childVars, outVars, inVars, sigVars, histVars>>
    /\ audit' = [CleanupStep(audit, "close") EXCEPT !.closeCount = @ + 1]

\* os.close raising OSError taken as the end of the finally block: the
\* exception leaves main and the interpreter exits with 1
CleanupCloseErr_Aborts ==
    /\ pc = "close"
    /\ faults < MaxFaults
    /\ faults' = faults + 1
    /\ masterOpen' = FALSE
    /\ exitCode' = 1
    /\ pc' = "exited"
    /\ UNCHANGED <<child_alive, fds, readable, pendingExit, autoReap>>
    /\ UNCHANGED <<execFailed, stdinEofCount, masterWriteFailed, loopErr, outAtEof>>
    /\ UNCHANGED <<childVars, outVars, inVars, sigVars>>
    /\ audit' = [CleanupStep(audit, "close") EXCEPT
                     !.closeCount = @ + 1, !.closeFailed = TRUE]

\* lines 99-102: os.close(master_fd) raises OSError, which is passed over;
\* the kernel has released the descriptor all the same
CleanupCloseErr ==
    /\ pc = "close"
    /\ faults < MaxFaults
    /\ faults' = faults + 1
    /\ masterOpen' = FALSE
    /\ pc' = "kill"
    /\ UNCHANGED <<child_alive, fds, readable, pendingExit, exitCode, autoReap>>
    /\ UNCHANGED <<execFailed, stdinEofCount, masterWriteFailed, loopErr, outAtEof>>
    /\ UNCHANGED <<childVars, outVars, inVars, sigVars>>
    /\ audit' = [CleanupStep(audit, "close") EXCEPT
                     !.closeCount = @ + 1, !.closeFailed = TRUE]

\* lines 103-106: os.kill(pid, SIGTERM), a lookup failure is passed over
CleanupKill ==
    /\ pc = "kill"
    /\ termSent' = KillChild(termSent)
    /\ pc' = "wait"
    /\ UNCHANGED <<child_alive, fds, readable, pendingExit, exitCode, masterOpen>>
    /\ UNCHANGED <<nSigterm, handlerRuns, autoReap>>
    /\ UNCHANGED <<childVars, outVars, inVars, histVars>>
    /\ audit' = [CleanupStep(PidOp(audit), "kill") EXCEPT
                     !.termInCleanup = (child # "gone")]

\* the finally block ending as if no SystemExit were in flight
FallThroughCode_Dropped == IF pendingExit # NoExit THEN 0 ELSE 0

\* the code the process exits with when the finally block ends without a
\* sys.exit of its own: that of the SystemExit in flight, or 0 when main
\* returns
FallThroughCode == IF pendingExit # NoExit THEN pendingExit ELSE 0

\* lines 107-110: the blocking os.waitpid(pid, 0) returns once the child has
\* terminated; a normal exit replaces the exit code, any other status is
\* dropped
CleanupWaitReaped ==
    /\ pc = "wait"
    /\ child = "zombie"
    /\ child' = "gone"
    /\ collectedBy' = "cleanup"
    /\ exitCode' = IF childStatus.kind = "exited" THEN childStatus.code
                   ELSE FallThroughCode
    /\ pc' = "exited"
    /\ UNCHANGED <<child_alive, fds, readable, pendingExit, masterOpen>>
    /\ UNCHANGED <<childStatus, autoReap, outVars, inVars, sigVars, histVars>>
    /\ audit' = CleanupStep(PidOp(audit), "wait")
    /\ UNCHANGED slaveOpen

\* lines 107-108, 111-112: ChildProcessError, the child was reaped before
CleanupWaitNoChild ==
    /\ pc = "wait"
    /\ child = "gone"
    /\ exitCode' = FallThroughCode
    /\ pc' = "exited"
    /\ UNCHANGED <<child_alive, fds, readable, pendingExit, masterOpen, autoReap>>
    /\ UNCHANGED <<childVars, outVars, inVars, sigVars, histVars>>
    /\ audit' = CleanupStep(PidOp(audit), "wait")

Next ==
    \/ ChildExec \/ ChildExecFail \/ ChildWrite \/ ChildExit \/ ChildSignaled
    \/ SlaveRelease
    \/ StdinOffer \/ StdinClose
    \/ SigtermDefault \/ SigtermHandler
    \/ Setup \/ LoopTest
    \/ SelectReady \/ SelectTimeout \/ SelectError
    \/ ReadMasterData \/ ReadMasterWriteFail \/ ReadMasterEof \/ ReadMasterErr
    \/ ReadStdinData \/ ReadStdinWriteFail \/ ReadStdinEof \/ ReadStdinErr
    \/ CheckAlive \/ CheckReaped \/ CheckNoChild
    \/ CleanupClose \/ CleanupCloseErr \/ CleanupKill
    \/ CleanupWaitReaped \/ CleanupWaitNoChild

Spec == Init /\ [][Next]_vars

\* ---- scheduling ------------------------------------------------------------
\* a step of main's own control flow (lines 39-112).  The supervisor is a
\* single-threaded process that the operating system keeps scheduling, every
\* wait it enters is one of: select with a 1.0 s timeout (line 56), a
\* non-blocking waitpid (line 86) and the blocking waitpid of line 108, which
\* is enabled here only once the child has terminated.  Reads follow a select
\* that reported the descriptor; writes are taken to complete.
MainStep ==
    \/ Setup \/ LoopTest
    \/ SelectReady \/ SelectTimeout \/ SelectError
    \/ ReadMasterData \/ ReadMasterWriteFail \/ ReadMasterEof \/ ReadMasterErr
    \/ ReadStdinData \/ ReadStdinWriteFail \/ ReadStdinEof \/ ReadStdinErr
    \/ CheckAlive \/ CheckReaped \/ CheckNoChild
    \/ CleanupClose \/ CleanupCloseErr \/ CleanupKill
    \/ CleanupWaitReaped \/ CleanupWaitNoChild

\* the child terminates when it has been sent SIGTERM (lines 44 and 104):
\* the disposition of SIGTERM in the child branch is the default one
ChildDiesOfTerm == termSent > 0 /\ ChildSignaled

LiveSpec == Spec /\ WF_vars(MainStep) /\ WF_vars(ChildDiesOfTerm)

TypeOK ==
    /\ pc \in {"setup", "loop", "select", "dispatch", "check", "close",
               "kill", "wait", "exited", "killed"}
    /\ child_alive \in BOOLEAN
    /\ fds \subseteq {MASTER, STDIN}
    /\ readable \in {<<>>, <<MASTER>>, <<STDIN>>, <<MASTER, STDIN>>}
    /\ pendingExit \in {NoExit, 1} \cup (0..MaxCode)
    /\ exitCode \in {NoExit, 1} \cup (0..MaxCode)
    /\ child \in {"preexec", "running", "zombie", "gone"}
    /\ ptyRead \in 0..Len(ptyOut)
    /\ stdinRead \in 0..stdinAvail
    /\ stdinAvail \in 0..MaxIn

\* ---- properties ------------------------------------------------------------
\* the first n bytes offered on stdin
StdinPrefix(n) == [i \in 1..n |-> InByte(i)]
IsPrefix(a, b) == Len(a) <= Len(b) /\ \A i \in 1..Len(a) : a[i] = b[i]

\* C1: when the child has exited normally with code N and a waitpid (in the
\* loop or in cleanup) has obtained that status, the supervisor exits with N,
\* whatever ended the relay loop.
C1_ExitCodePropagation ==
    (pc = "exited" /\ childStatus.kind = "exited" /\ collectedBy # "none")
        => exitCode = childStatus.code

\* a SIGTERM ended the loop, the child then exited normally with the largest
\* code and the blocking wait of cleanup collected it
C1_Witness ==
    /\ pc = "exited"
    /\ nSigterm > 0
    /\ collectedBy = "cleanup"
    /\ childStatus = Exited(MaxCode)
    /\ exitCode = MaxCode

\* C2: when the supervisor has exited and the child was terminated by a signal
\* or no waitpid could obtain its status, the supervisor's exit code is 1.
C2_AbnormalExitIsOne ==
    (pc = "exited" /\ (childStatus.kind = "signaled" \/ collectedBy = "none"))
        => exitCode = 1

\* C3: every SIGTERM delivered after the fork runs the handler, which signals
\* the child and clears child_alive; the supervisor is never killed by it.
C3_SignalForwarded ==
    nSigterm > 0 => (pc # "killed" /\ handlerRuns = nSigterm /\ ~child_alive)

\* C4: after a zero-byte read of stdin, as long as the child runs and nothing
\* else has ended the relay (no SIGTERM, no failure of select, of the master
\* read or of the stdout write), the master stays open, child_alive stays
\* true, the supervisor stays in the relay loop and every select still
\* watches the master.
C4_HalfCloseTolerance ==
    (stdinEofCount > 0 /\ ChildLive /\ nSigterm = 0 /\ ~loopErr)
        => /\ masterOpen
           /\ child_alive
           /\ pc \in LoopPcs
           /\ (pc = "select" => MASTER \in fds)

\* the child is still running and output it wrote after the zero-byte read of
\* stdin has reached stdout
C4_Witness ==
    /\ outAtEof >= 0
    /\ ChildLive
    /\ Len(stdoutBytes) > outAtEof
    /\ pc \in LoopPcs

\* C5: when the supervisor has exited after the child terminated, with no
\* SIGTERM and no failed system call in the run, stdout holds everything the
\* child wrote to its terminal.
C5_OutputComplete ==
    (pc = "exited" /\ ~ChildLive /\ nSigterm = 0 /\ faults = 0)
        => stdoutBytes = ptyOut

\* C6: the bytes written to the master are a prefix of the bytes read from
\* stdin.
C6_InputPrefix == IsPrefix(masterIn, StdinPrefix(stdinRead))

\* C7 as stated: at exit the master is closed and a waitpid of the supervisor
\* has collected the child's status.
C7_ReapedByWaitpid ==
    pc = "exited" => (~masterOpen /\ child = "gone" /\ collectedBy # "none")

\* C7 (amended): at exit the master is closed and the child is neither running
\* nor a zombie: a waitpid of the supervisor collected its status, or SIGCHLD
\* is ignored and the kernel released it (waitpid raised ChildProcessError).
C7_CleanupOnExit ==
    pc = "exited"
        => /\ ~masterOpen
           /\ child = "gone"
           /\ (collectedBy # "none" \/ autoReap)

\* the loop ended on an I/O error and cleanup reaped the child
C7_Witness ==
    /\ pc = "exited"
    /\ loopErr
    /\ ~masterOpen
    /\ collectedBy = "cleanup"

\* C8: after a failed exec the supervisor exits with code 1.
C8_LaunchFailureExitsOne ==
    (execFailed /\ pc = "exited") => exitCode = 1

\* C9: once a write to the master has failed, no further select or descriptor
\* dispatch takes place.
C9_MasterWriteFailEndsLoop ==
    masterWriteFailed => pc \notin {"select", "dispatch"}

\* C10: once a read of stdin has returned zero bytes, stdin is in the watched
\* set of no later select and is not read again.
C10_HalfCloseSticky ==
    stdinEofCount > 0
        => /\ (pc = "select" => STDIN \notin fds)
           /\ stdinEofCount = 1

CleanupPcs == {"close", "kill", "wait"}

\* C11: master_fd is closed at most once, the close happens only after the
\* relay loop has been left, and no select, read or write involves master_fd
\* once it is closed, also when SIGTERM arrives inside the finally block.
C11_MasterLifetime ==
    /\ audit.closeCount <= 1
    /\ ~audit.usedAfterClose
    /\ (audit.closeCount > 0 \/ ~masterOpen) => pc \in {"kill", "wait", "exited"}

\* the run has ended with one close, and the handler ran inside the finally
\* block
C11_Witness ==
    /\ pc = "exited"
    /\ audit.closeCount = 1
    /\ audit.sigInCleanup

\* the exit code lines 90-93 derive from the child's status
RecordedCode == IF childStatus.kind = "exited" THEN childStatus.code ELSE 1

\* C12: when the in-loop waitpid has reaped the child, the code derived from
\* that status stays the pending exit code all through the finally block and
\* is the exit code of the supervisor.
C12_RecordedStatusFinal ==
    collectedBy = "loop"
        => /\ pc \in CleanupPcs => pendingExit = RecordedCode
           /\ pc = "exited" => exitCode = RecordedCode

\* the loop reaped a child killed by a signal, SIGTERM arrived inside the
\* finally block, and the supervisor exited with the recorded code 1
C12_Witness ==
    /\ pc = "exited"
    /\ collectedBy = "loop"
    /\ childStatus.kind = "signaled"
    /\ audit.sigInCleanup
    /\ exitCode = 1

\* C13: once a waitpid has returned the child's status, main issues no
\* further os.kill and no further os.waitpid on the child's pid: the kill and
\* the blocking wait of the finally block are skipped for a reaped child.
C13_NoActionOnReaped == ~audit.afterReap

\* C14: once a read of the master has returned zero bytes or raised, or the
\* write of master data to stdout has raised, child_alive is false and the
\* supervisor is past the descriptor dispatch for good: no other descriptor
\* of that iteration is read and no select is started again.
C14_MasterEndStopsLoop ==
    audit.masterEnded => (~child_alive /\ pc \notin {"select", "dispatch"})

\* the master branch ended while stdin, reported readable by the same select,
\* still had its input pending; the supervisor went through cleanup without
\* reading it
C14_Witness ==
    /\ audit.masterEnded
    /\ readable = <<MASTER, STDIN>>
    /\ stdinRead < stdinAvail
    /\ pc = "exited"

C18_OutputPrefix == IsPrefix(stdoutBytes, ptyOut)

\* some output was relayed, then a chunk was read from the master and lost in
\* a failed write to stdout
C18_Witness ==
    /\ Len(stdoutBytes) > 0
    /\ ptyRead > Len(stdoutBytes)
    /\ audit.masterEnded

\* ---- C15 --------------------------------------------------------------------
\* a step that takes main out of the select and the dispatch of an iteration
\* enters the child check, unless it is select raising at lines 57-58
IterationEndsInCheck ==
    (pc \in {"select", "dispatch"} /\ pc' \notin {"select", "dispatch"})
        => (pc' = "check" \/ (pc = "select" /\ pc' = "close"))

\* C15: every iteration of the relay loop that select does not end with an
\* error goes on to the child check of lines 85-96, after a timeout as well
\* as after a dispatch, cut short or not; at most one select timeout expires
\* after the child has terminated; and when the child has terminated while
\* the relay loop is running, the supervisor leaves the loop and exits,
\* whether or not a descriptor ever becomes readable.
C15_SilentExitDetected ==
    /\ [][IterationEndsInCheck]_vars
    /\ [](audit.quietTimeouts <= 1)
    /\ (pc \in LoopPcs /\ ~ChildLive) ~> (pc = "exited")

\* the child terminated without a byte of output pending while a process it
\* left behind kept the slave open, select timed out and the check of line 86
\* collected the status
C15_Witness ==
    /\ pc = "exited"
    /\ collectedBy = "loop"
    /\ audit.quietTimeouts = 1
    /\ audit.death = "loop"
    /\ slaveOpen
    /\ ~audit.masterEnded
    /\ handlerRuns = 0
    /\ faults = 0
    /\ exitCode = RecordedCode

\* ---- C16 --------------------------------------------------------------------
\* C16: once sigterm_handler has run, no select is started any more; if it
\* ran during the relay loop, the finally block runs its three steps and the
\* supervisor exits with the child reaped, the child being taken to terminate
\* on the SIGTERM it is sent.
C16_SignalUnwind ==
    /\ [][handlerRuns > 0 /\ pc # "select" => pc' # "select"]_vars
    /\ (handlerRuns > 0 /\ pc \in LoopPcs)
         ~> (pc = "exited" /\ child = "gone" /\ Len(audit.cleanupLog) = 3)

\* the handler ran in the loop while the child was running, the child died of
\* the forwarded SIGTERM and the blocking waitpid of line 108 collected it
C16_Witness ==
    /\ pc = "exited"
    /\ handlerRuns > 0
    /\ ~audit.sigInCleanup
    /\ audit.death = "termed"
    /\ childStatus = Signaled
    /\ collectedBy = "cleanup"

====
